---------------------------- MODULE Spec2Model ----------------------------
(***************************************************************************)
(* Model of src/core/cachefilter.cpp: the adaptive recency cache VSCache    *)
(* (recency list with a ghost tail, statistics driven resizing) and the    *)
(* two-phase frame request scheduler cacheGetframe built on top of it.     *)
(*                                                                         *)
(* The recency list first..last is a sequence of nodes, head first.  A     *)
(* node is [key, frame]; frame = NoFrame is a released (null) PVSFrameRef. *)
(* Nodes live in the hash keyed by their key, so a pointer to a node is    *)
(* modelled by the node's key and the null pointer by NoNode.  hash is    *)
(* the set of keys the unordered_map holds.                                *)
(***************************************************************************)
EXTENDS Integers, Sequences, FiniteSets

(***************************************************************************)
(* Bounds of the model.                                                    *)
(***************************************************************************)
\* keys offered to the cache operations are 0..MaxKey
MaxKey == 2
\* the cache is constructed with maxSize in 1..MaxInitSize
MaxInitSize == 1
\* the cache is constructed with maxHistorySize in 1..MaxHistory
MaxHistory == 1
\* Grow is not applied once maxSize would exceed MaxSizeCap
MaxSizeCap == 3
\* a warmed-up cache starts with StatBase far misses already counted
StatBase == 28
\* lookups are explored for MaxLookups steps above 0 and above StatBase
MaxLookups == 2
\* the policy function is explored for hits, nearMiss, farMiss in 0..MaxStat
MaxStat == 33
\* the scheduler is asked for frames 0..MaxFrame and for FarFrame
MaxFrame == 2
\* numThreads is drawn from 1..MaxThreads
MaxThreads == 2
\* number of frame contexts that can be in flight at once
NumActs == 2
\* the scheduler performs at most MaxRequests initial phases
MaxRequests == 3

(***************************************************************************)
(* Program constants.                                                      *)
(***************************************************************************)
\* static const int extraFrames = 7
extraFrames == 7
\* if (total < 30) return NoChange
minTotal == 30
\* bool grow = ((nearMiss * 20) >= total)
growFactor == 20
\* *fd = -2: the ready phase inserts only frame n
noBatch == -2

NoNode == -1
NoFrame == 0

Keys == 0 .. MaxKey
\* a frame beyond the window of every lastN in -1..MaxFrame
FarFrame == MaxFrame + MaxThreads + extraFrames
Frames == (0 .. MaxFrame) \cup {FarFrame}
Acts == 1 .. NumActs

VARIABLES
    cache,           \* CacheInstance::cache, the VSCache object
    lastN,           \* CacheInstance::lastN
    makeLinear,      \* CacheInstance::makeLinear
    numThreads,      \* CacheInstance::numThreads
    acts,            \* the frame contexts: phase, n, *frameData, requests issued
    ev               \* the call completed by the last step and what it returned

vars == <<cache, lastN, makeLinear, numThreads, acts, ev>>

schedVars == <<lastN, makeLinear, numThreads, acts>>

(***************************************************************************)
(* The members of the VSCache object, and helpers on the recency list.     *)
(***************************************************************************)
\* keys of VSCache::hash
hash == cache.hash
\* the recency list first..last, head first
list == cache.list
\* key of the node VSCache::weakpoint points to, or NoNode
weakpoint == cache.weakpoint
currentSize == cache.currentSize
historySize == cache.historySize
maxSize == cache.maxSize
maxHistorySize == cache.maxHistorySize
fixedSize == cache.fixedSize
hits == cache.hits
nearMiss == cache.nearMiss
farMiss == cache.farMiss

\* what one call did to the entries, kept for the event of the step:
\* keys whose frame trim released, keys trim destroyed, and the
\* <<key, frame>> pairs inserted, in order
NoLog == [demoted |-> {}, destroyed |-> {}, inserted |-> <<>>]

\* the object as a call finds it
Cache == cache

\* the object as a call leaves it
SetCache(c) == cache' = [c EXCEPT !.log = NoLog]

\* the frame object the upstream clip produces for index k (never null)
Frame(k) == k + 1

Max(a, b) == IF a >= b THEN a ELSE b

\* position in the list of the node with key k, 0 when there is none
Find(l, k) ==
    IF \E i \in 1 .. Len(l) : l[i].key = k
    THEN CHOOSE i \in 1 .. Len(l) : l[i].key = k
    ELSE 0

Without(l, i) == [j \in 1 .. Len(l) - 1 |-> IF j < i THEN l[j] ELSE l[j + 1]]

\* n.nextNode / n.prevNode as node pointers
NextNode(l, i) == IF i < Len(l) THEN l[i + 1].key ELSE NoNode
PrevNode(l, i) == IF i > 1 THEN l[i - 1].key ELSE NoNode

(***************************************************************************)
(* VSCache members declared in cachefilter.h.                              *)
(***************************************************************************)
\* clearStats(): hits = nearMiss = farMiss = 0
clearStats(c) == [c EXCEPT !.hits = 0, !.nearMiss = 0, !.farMiss = 0]

\* clear(): destroys all entries, resets the sizes, the boundary and the
\* statistics; the configured capacities stay
clear(c) ==
    clearStats([c EXCEPT !.hash = {}, !.list = <<>>, !.weakpoint = NoNode,
                         !.currentSize = 0, !.historySize = 0])

\* unlink(n): takes the node out of the list and the hash; a live node
\* counts against currentSize, a ghost against historySize; a boundary
\* that pointed to the node moves to the node after it
unlink(c, k) ==
    LET i == Find(c.list, k)
    IN  [c EXCEPT
            !.weakpoint = IF c.weakpoint = k THEN NextNode(c.list, i) ELSE @,
            !.list = Without(c.list, i),
            !.hash = @ \ {k},
            !.currentSize = IF c.list[i].frame # NoFrame THEN @ - 1 ELSE @,
            !.historySize = IF c.list[i].frame # NoFrame THEN @ ELSE @ + (-1)]

\* the node at position i moved to the head of the list
ToHead(c, i) ==
    IF i = 1 THEN c
    ELSE [c EXCEPT
            !.weakpoint = IF c.weakpoint = c.list[i].key
                          THEN NextNode(c.list, i) ELSE @,
            !.list = <<c.list[i]>> \o Without(c.list, i)]

\* relink(key): the lookup.  Absent: far miss.  Ghost: near miss, the
\* tombstone is promoted to head and stays without frame.  Live: hit, the
\* node is promoted to head and its frame returned.
relink(c, k) ==
    LET i == Find(c.list, k)
    IN  IF k \notin c.hash
        THEN [c |-> [c EXCEPT !.farMiss = @ + 1], ret |-> NoFrame]
        ELSE IF c.list[i].frame = NoFrame
        THEN [c |-> [ToHead(c, i) EXCEPT !.nearMiss = @ + 1], ret |-> NoFrame]
        ELSE [c |-> [ToHead(c, i) EXCEPT !.hits = @ + 1],
              ret |-> c.list[i].frame]

getMaxFrames(c) == c.maxSize

(***************************************************************************)
(* VSCache members defined in cachefilter.cpp.                             *)
(***************************************************************************)
\* return this->relink(key)
object(c, k) == relink(c, k)

\* remove that never finds the key
removeNothing(c, k) == [c |-> c, ret |-> FALSE]

\* remove(key): unlink the node when the hash has it
remove(c, k) ==
    IF k \notin c.hash
    THEN [c |-> c, ret |-> FALSE]
    ELSE [c |-> unlink(c, k), ret |-> TRUE]

\* a round that also erases the demoted key from the hash
TrimStepForget(c) ==
    LET l == c.list
        w == IF c.weakpoint = NoNode
             THEN (IF Len(l) = 0 THEN NoNode ELSE l[Len(l)].key)
             ELSE PrevNode(l, Find(l, c.weakpoint))
        i == Find(l, w)
    IN  [c EXCEPT
            !.weakpoint = w,
            !.hash = @ \ {w},
            !.list = IF w = NoNode THEN l
                     ELSE [l EXCEPT ![i].frame = NoFrame],
            !.currentSize = @ - 1,
            !.historySize = @ + 1,
            !.log.demoted = IF w # NoNode /\ l[i].frame # NoFrame
                            THEN @ \cup {w} ELSE @]

\* one round of the first loop of trim: the boundary moves one node towards
\* the head (or starts at last), the node it reaches loses its frame, and
\* the two sizes are adjusted whether or not a node was reached
TrimStep(c) ==
    LET l == c.list
        w == IF c.weakpoint = NoNode
             THEN (IF Len(l) = 0 THEN NoNode ELSE l[Len(l)].key)
             ELSE PrevNode(l, Find(l, c.weakpoint))
        i == Find(l, w)
    IN  [c EXCEPT
            !.weakpoint = w,
            !.list = IF w = NoNode THEN l
                     ELSE [l EXCEPT ![i].frame = NoFrame],
            !.currentSize = @ - 1,
            !.historySize = @ + 1,
            !.log.demoted = IF w # NoNode /\ l[i].frame # NoFrame
                            THEN @ \cup {w} ELSE @]

RECURSIVE TrimLiveGe(_, _)
\* the first loop running while (currentSize >= max)
TrimLiveGe(c, max) ==
    IF c.currentSize >= max THEN TrimLiveGe(TrimStep(c), max) ELSE c

RECURSIVE TrimLive(_, _)
\* while (currentSize > max) ...
TrimLive(c, max) ==
    IF c.currentSize > max THEN TrimLive(TrimStep(c), max) ELSE c

RECURSIVE TrimHistory(_, _)
\* while (last && historySize > maxHistory) unlink(*last)
TrimHistory(c, maxHistory) ==
    IF Len(c.list) > 0 /\ c.historySize > maxHistory
    THEN LET k == c.list[Len(c.list)].key
         IN  TrimHistory([unlink(c, k) EXCEPT !.log.destroyed = @ \cup {k}],
                         maxHistory)
    ELSE c

\* trim without its second loop
trimLiveOnly(c, max, maxHistory) == TrimLive(c, max)

trim(c, max, maxHistory) == TrimHistory(TrimLive(c, max), maxHistory)

\* setMaxFrames(m): maxSize = m, then trim(maxSize, maxHistorySize)
setMaxFrames(c, m) ==
    LET c1 == [c EXCEPT !.maxSize = m]
    IN  trim(c1, c1.maxSize, c1.maxHistorySize)

\* insert that skips remove(akey)
insertNoRemove(c, k, p) ==
    LET c2 == [c EXCEPT !.hash = @ \cup {k},
                        !.list = <<[key |-> k, frame |-> p]>> \o @,
                        !.currentSize = @ + 1,
                        !.log.inserted = Append(@, <<k, p>>)]
    IN  trim(c2, c2.maxSize, c2.maxHistorySize)

\* insert that links the new node in at last
insertAtTail(c, k, p) ==
    LET c1 == remove(c, k).c
        c2 == [c1 EXCEPT !.hash = @ \cup {k},
                         !.list = @ \o <<[key |-> k, frame |-> p]>>,
                         !.currentSize = @ + 1,
                         !.log.inserted = Append(@, <<k, p>>)]
    IN  trim(c2, c2.maxSize, c2.maxHistorySize)

\* insert(akey, aobject): remove(akey), a new node with the frame linked
\* in at first, currentSize++, trim(maxSize, maxHistorySize)
insert(c, k, p) ==
    LET c1 == remove(c, k).c
        c2 == [c1 EXCEPT !.hash = @ \cup {k},
                         !.list = <<[key |-> k, frame |-> p]>> \o @,
                         !.currentSize = @ + 1,
                         !.log.inserted = Append(@, <<k, p>>)]
    IN  trim(c2, c2.maxSize, c2.maxHistorySize)

\* bool shrink = (nearMiss == 0 && hits == 0)
shrink(c) == c.nearMiss = 0 /\ c.hits = 0

\* grow with the comparison turned round
growLe(c) == c.nearMiss * growFactor <= c.hits + c.nearMiss + c.farMiss

\* bool grow = ((nearMiss * 20) >= total)
grow(c) == c.nearMiss * growFactor >= c.hits + c.nearMiss + c.farMiss

\* recommendSize with total <= 30 as the low-traffic test
recommendSizeLe(c) ==
    LET total == c.hits + c.nearMiss + c.farMiss
    IN  IF total = 0 THEN [c |-> c, action |-> "Clear"]
        ELSE IF total <= minTotal THEN [c |-> c, action |-> "NoChange"]
        ELSE IF grow(c) THEN [c |-> clearStats(c), action |-> "Grow"]
        ELSE IF shrink(c) THEN [c |-> clearStats(c), action |-> "Shrink"]
        ELSE [c |-> clearStats(c), action |-> "NoChange"]

\* recommendSize whose last branch returns without clearStats()
recommendSizeKeep(c) ==
    LET total == c.hits + c.nearMiss + c.farMiss
    IN  IF total = 0 THEN [c |-> c, action |-> "Clear"]
        ELSE IF total < minTotal THEN [c |-> c, action |-> "NoChange"]
        ELSE IF grow(c) THEN [c |-> clearStats(c), action |-> "Grow"]
        ELSE IF shrink(c) THEN [c |-> clearStats(c), action |-> "Shrink"]
        ELSE [c |-> c, action |-> "NoChange"]

\* recommendSize(): the action for the statistics gathered; clearStats()
\* runs only on the three branches taken when total >= 30
recommendSize(c) ==
    LET total == c.hits + c.nearMiss + c.farMiss
    IN  IF total = 0 THEN [c |-> c, action |-> "Clear"]
        ELSE IF total < minTotal THEN [c |-> c, action |-> "NoChange"]
        ELSE IF grow(c) THEN [c |-> clearStats(c), action |-> "Grow"]
        ELSE IF shrink(c) THEN [c |-> clearStats(c), action |-> "Shrink"]
        ELSE [c |-> clearStats(c), action |-> "NoChange"]

\* the normal branch shrinking by 2, as the needMemory branch does
AdjustNormalShrink2(c, action) ==
    CASE action = "Clear" ->
            LET c1 == clear(c)
            IN  setMaxFrames(c1, Max(getMaxFrames(c1) - 2, 0))
      [] action = "Grow" -> setMaxFrames(c, getMaxFrames(c) + 2)
      [] action = "Shrink" -> setMaxFrames(c, Max(getMaxFrames(c) - 2, 0))
      [] OTHER -> c

\* adjustSize, the branch taken when needMemory is false
AdjustNormal(c, action) ==
    CASE action = "Clear" ->
            LET c1 == clear(c)
            IN  setMaxFrames(c1, Max(getMaxFrames(c1) - 2, 0))
      [] action = "Grow" -> setMaxFrames(c, getMaxFrames(c) + 2)
      [] action = "Shrink" -> setMaxFrames(c, Max(getMaxFrames(c) - 1, 0))
      [] OTHER -> c

\* the needMemory branch with Clear not calling clear()
AdjustNeedMemoryNoClear(c, action) ==
    CASE action = "Clear" -> setMaxFrames(c, Max(getMaxFrames(c) - 2, 0))
      [] action = "Shrink" -> setMaxFrames(c, Max(getMaxFrames(c) - 2, 0))
      [] action = "NoChange" ->
            LET c1 == IF getMaxFrames(c) <= 1 THEN clear(c) ELSE c
            IN  setMaxFrames(c1, Max(getMaxFrames(c1) - 1, 1))
      [] OTHER -> c

\* adjustSize, the branch taken when needMemory is true
AdjustNeedMemory(c, action) ==
    CASE action = "Clear" ->
            LET c1 == clear(c)
            IN  setMaxFrames(c1, Max(getMaxFrames(c1) - 2, 0))
      [] action = "Shrink" -> setMaxFrames(c, Max(getMaxFrames(c) - 2, 0))
      [] action = "NoChange" ->
            LET c1 == IF getMaxFrames(c) <= 1 THEN clear(c) ELSE c
            IN  setMaxFrames(c1, Max(getMaxFrames(c1) - 1, 1))
      [] OTHER -> c

\* adjustSize without the fixedSize test
adjustSizeAlways(c, needMemory) ==
    LET r == recommendSize(c)
    IN  [c |-> IF needMemory THEN AdjustNeedMemory(r.c, r.action)
               ELSE AdjustNormal(r.c, r.action),
         action |-> r.action]

\* adjustSize(needMemory): nothing when fixedSize, else the action
\* recommendSize() returns applied under one of the two regimes
adjustSize(c, needMemory) ==
    IF c.fixedSize THEN [c |-> c, action |-> "none"]
    ELSE LET r == recommendSize(c)
         IN  [c |-> IF needMemory THEN AdjustNeedMemory(r.c, r.action)
                    ELSE AdjustNormal(r.c, r.action),
              action |-> r.action]

(***************************************************************************)
(* The state after construction.                                           *)
(***************************************************************************)
IdleAct == [pc |-> "idle", n |-> NoNode, fd |-> noBatch, req |-> <<>>]

\* what the hash held for key k: 0 nothing, 1 a ghost, 2 a live entry
Held(k) ==
    IF k \notin hash THEN 0
    ELSE IF list[Find(list, k)].frame = NoFrame THEN 1 ELSE 2

\* the call a step made: its name, key and argument, what it returned, for
\* an insert what the hash held for the key before (for adjustSize:
\* maxSize before), the key found by the
\* lookup that came right before the call (NoNode: none), the log of the
\* call, and for the scheduler the frame context, *frameData and requests
Event(op, key, arg, ret, c) ==
    [op |-> op, key |-> key, arg |-> arg, ret |-> ret,
     pre |-> IF op = "insert" THEN Held(key) ELSE 0,
     after |-> IF op = "insert" /\ ev.op = "object" /\ ev.key \in hash
               THEN ev.key ELSE NoNode,
     log |-> c.log, action |-> "none", act |-> 0, fd |-> noBatch,
     req |-> <<>>]

\* no call made yet
NoEvent ==
    [op |-> "new", key |-> NoNode, arg |-> 0, ret |-> 0, pre |-> 0,
     after |-> NoNode, log |-> NoLog, action |-> "none", act |-> 0, fd |-> noBatch, req |-> <<>>]

\* VSCache(maxSize, maxHistorySize, fixedSize) runs clear(); far is the
\* number of lookups of absent keys made since
NewCache(size, history, fixed, far) ==
    [log |-> NoLog, hash |-> {}, list |-> <<>>, weakpoint |-> NoNode,
     currentSize |-> 0, historySize |-> 0, maxSize |-> size,
     maxHistorySize |-> history, fixedSize |-> fixed,
     hits |-> 0, nearMiss |-> 0, farMiss |-> far]

\* CacheInstance: lastN starts below every frame number, no request pending
InitSched ==
    /\ lastN = -1
    /\ acts = [a \in Acts |-> IdleAct]
    /\ ev = NoEvent

\* The cache alone.  farMiss = StatBase is the fresh cache after StatBase
\* lookups of keys it does not hold, a start from which the statistics reach
\* the policy's threshold within the lookups explored.
Init ==
    /\ \E size \in 1 .. MaxInitSize, history \in 1 .. MaxHistory,
          far \in {0, StatBase} :
          cache = NewCache(size, history, FALSE, far)
    /\ InitSched
    /\ makeLinear = FALSE
    /\ numThreads = 1

(***************************************************************************)
(* The cache operations.                                                   *)
(***************************************************************************)
Total == hits + nearMiss + farMiss

\* bound on the lookups explored
LookupAllowed ==
    \/ Total < MaxLookups
    \/ Total >= StatBase /\ Total < StatBase + MaxLookups

Insert(k) ==
    /\ LET c == insert(Cache, k, Frame(k))
       IN  /\ SetCache(c)
           /\ ev' = Event("insert", k, Frame(k), 1, c)
    /\ UNCHANGED schedVars

Lookup(k) ==
    /\ LookupAllowed
    /\ LET r == object(Cache, k)
       IN  /\ SetCache(r.c)
           /\ ev' = Event("object", k, 0, r.ret, r.c)
    /\ UNCHANGED schedVars

Remove(k) ==
    /\ LET r == remove(Cache, k)
       IN  /\ SetCache(r.c)
           /\ ev' = Event("remove", k, 0, IF r.ret THEN 1 ELSE 0, r.c)
    /\ UNCHANGED schedVars

Clear ==
    /\ LET c == clear(Cache)
       IN  /\ SetCache(c)
           /\ ev' = Event("clear", NoNode, 0, 0, c)
    /\ UNCHANGED schedVars

Trim ==
    /\ LET c == trim(Cache, maxSize, maxHistorySize)
       IN  /\ SetCache(c)
           /\ ev' = Event("trim", NoNode, 0, 0, c)
    /\ UNCHANGED schedVars

AdjustSize(needMemory) ==
    /\ LET r == adjustSize(Cache, needMemory)
       IN  /\ r.c.maxSize <= MaxSizeCap
           /\ SetCache(r.c)
           /\ ev' = [Event("adjustSize", NoNode, IF needMemory THEN 1 ELSE 0,
                              0, r.c)
                        EXCEPT !.action = r.action, !.pre = maxSize]
    /\ UNCHANGED schedVars

Next ==
    \/ \E k \in Keys : Insert(k)
    \/ \E k \in Keys : Lookup(k)
    \/ \E k \in Keys : Remove(k)
    \/ Clear
    \/ Trim
    \/ \E needMemory \in BOOLEAN : AdjustSize(needMemory)

Spec == Init /\ [][Next]_vars

\* The cache created with fixed = true (createCacheFilter's "fixed" argument)
InitFixed ==
    /\ \E size \in 1 .. MaxInitSize, history \in 1 .. MaxHistory,
          far \in {0, StatBase} :
          cache = NewCache(size, history, TRUE, far)
    /\ InitSched
    /\ makeLinear = FALSE
    /\ numThreads = 1

SpecFixed == InitFixed /\ [][Next]_vars

\* Resizing from every capacity: the cache constructed with maxSize in
\* 1..MaxSizeCap, filled and looked up, then adjusted.
InitResize ==
    /\ \E size \in 1 .. MaxSizeCap, history \in 1 .. MaxHistory,
          far \in {0, StatBase} :
          cache = NewCache(size, history, FALSE, far)
    /\ InitSched
    /\ makeLinear = FALSE
    /\ numThreads = 1

NextResize ==
    \/ \E k \in Keys : Insert(k)
    \/ \E k \in Keys : Lookup(k)
    \/ \E needMemory \in BOOLEAN : AdjustSize(needMemory)

SpecResize == InitResize /\ [][NextResize]_vars

(***************************************************************************)
(* cacheGetframe, the filter's getframe callback.  The host runs the       *)
(* initial phase of a frame context, and, when the context requested       *)
(* frames, the ready phase once they are all available; *frameData is      *)
(* carried from one to the other.  Calls of the callback are serialized.   *)
(***************************************************************************)
Range(a, b) == [i \in 1 .. (b - a + 1) |-> a + i - 1]

InSeq(q, x) == \E i \in 1 .. Len(q) : q[i] = x

\* the window test with <= in place of <
LinearizeLe(n) ==
    /\ makeLinear
    /\ n # lastN + 1
    /\ n > lastN
    /\ n <= lastN + numThreads + extraFrames

\* makeLinear && n != lastN + 1 && n > lastN && n < lastN + numThreads + extraFrames
Linearize(n) ==
    /\ makeLinear
    /\ n # lastN + 1
    /\ n > lastN
    /\ n < lastN + numThreads + extraFrames

\* the frames requested from the clip on a miss, in order
Requested(n) == IF Linearize(n) THEN Range(lastN + 1, n) ELSE <<n>>

\* *fd as set on a miss
Marker(n) == IF Linearize(n) THEN lastN ELSE noBatch

\* the ready phase with frame n taken first
FetchedFirst(n, fd) == <<n>> \o (IF fd >= -1 THEN Range(fd + 1, n - 1) ELSE <<>>)

\* the ready phase counting from the current lastN instead of *fd
FetchedFromLastN(n, fd) ==
    (IF fd >= -1 THEN Range(lastN + 1, n - 1) ELSE <<>>) \o <<n>>

\* the frames the ready phase gets from the clip, in order
Fetched(n, fd) == (IF fd >= -1 THEN Range(fd + 1, n - 1) ELSE <<>>) \o <<n>>

\* getFrameFilter(i): the frame when the context requested it, else null
getFrameFilter(req, i) == IF InSeq(req, i) THEN Frame(i) ELSE NoFrame

RECURSIVE InsertAll(_, _, _)
\* cache.insert of every frame of q, in order
InsertAll(c, q, req) ==
    IF q = <<>> THEN c
    ELSE InsertAll(insert(c, Head(q), getFrameFilter(req, Head(q))), Tail(q), req)

\* a lookup result that is never taken as a frame
ServedNever(f) == FALSE

\* if (f): the lookup returned a frame
Served(f) == f # NoFrame

\* the frame contexts of the node are distinct frames
Pending(n) == \E b \in Acts : acts[b].pc = "waiting" /\ acts[b].n = n

\* the initial phase writing lastN before it looks at the lookup's result
InitialPhaseMoves(a, n) ==
    /\ acts[a].pc = "idle"
    /\ ~Pending(n)
    /\ Total < MaxRequests
    /\ lastN' = n
    /\ LET r == object(Cache, n)
       IN  /\ SetCache(r.c)
           /\ IF Served(r.ret)
              THEN /\ ev' = [Event("initial", n, 0, r.ret, r.c) EXCEPT !.act = a]
                   /\ UNCHANGED <<makeLinear, numThreads, acts>>
              ELSE /\ acts' = [acts EXCEPT ![a] =
                                  [pc |-> "waiting", n |-> n, fd |-> Marker(n),
                                   req |-> Requested(n)]]
                   /\ ev' = [Event("initial", n, 0, NoFrame, r.c) EXCEPT
                                !.act = a, !.fd = Marker(n),
                                !.req = Requested(n)]
                   /\ UNCHANGED <<makeLinear, numThreads>>

\* activationReason == arInitial
InitialPhase(a, n) ==
    /\ acts[a].pc = "idle"
    /\ ~Pending(n)
    /\ Total < MaxRequests
    /\ LET r == object(Cache, n)
       IN  /\ SetCache(r.c)
           /\ IF Served(r.ret)
              THEN /\ ev' = [Event("initial", n, 0, r.ret, r.c) EXCEPT !.act = a]
                   /\ UNCHANGED schedVars
              ELSE /\ acts' = [acts EXCEPT ![a] =
                                  [pc |-> "waiting", n |-> n, fd |-> Marker(n),
                                   req |-> Requested(n)]]
                   /\ lastN' = n
                   /\ ev' = [Event("initial", n, 0, NoFrame, r.c) EXCEPT
                                !.act = a, !.fd = Marker(n),
                                !.req = Requested(n)]
                   /\ UNCHANGED <<makeLinear, numThreads>>

\* activationReason == arAllFramesReady
ReadyPhase(a) ==
    /\ acts[a].pc = "waiting"
    /\ LET n == acts[a].n
           fd == acts[a].fd
           req == acts[a].req
           c == InsertAll(Cache, Fetched(n, fd), req)
       IN  /\ SetCache(c)
           /\ ev' = [Event("ready", n, 0, getFrameFilter(req, n), c) EXCEPT
                        !.act = a, !.fd = fd, !.req = req]
    /\ acts' = [acts EXCEPT ![a] = IdleAct]
    /\ UNCHANGED <<lastN, makeLinear, numThreads>>

\* createCacheFilter: numThreads from the core, make_linear from the caller
InitFilter ==
    /\ \E size \in 1 .. MaxInitSize, history \in 1 .. MaxHistory :
          cache = NewCache(size, history, FALSE, 0)
    /\ InitSched
    /\ makeLinear \in BOOLEAN
    /\ numThreads \in 1 .. MaxThreads

NextFilter ==
    \/ \E a \in Acts, n \in Frames : InitialPhase(a, n)
    \/ \E a \in Acts : ReadyPhase(a)

SpecFilter == InitFilter /\ [][NextFilter]_vars

(***************************************************************************)
(* recommendSize as a function of the statistics: every combination of     *)
(* counters in the ranges explored, on a cache emptied by remove.          *)
(***************************************************************************)
RecommendSize ==
    /\ LET r == recommendSize(Cache)
       IN  /\ SetCache(r.c)
           /\ ev' = [Event("recommendSize", NoNode, 0, 0, r.c)
                        EXCEPT !.action = r.action]
    /\ UNCHANGED schedVars

InitPolicy ==
    /\ \E h \in 0 .. MaxStat, m \in 0 .. MaxStat, f \in 0 .. 3 * MaxStat + 1 :
          cache = [NewCache(1, 1, FALSE, f) EXCEPT !.hits = h, !.nearMiss = m]
    /\ InitSched
    /\ makeLinear = FALSE
    /\ numThreads = 1

NextPolicy == RecommendSize

SpecPolicy == InitPolicy /\ [][NextPolicy]_vars

(***************************************************************************)
(* Properties.                                                             *)
(***************************************************************************)
ListKeys == {list[i].key : i \in 1 .. Len(list)}

\* the three outcomes of a lookup step
HitStep == hits' = hits + 1 /\ nearMiss' = nearMiss /\ farMiss' = farMiss
NearMissStep ==
    /\ nearMiss' = nearMiss + 1
    /\ hits' = hits
    /\ farMiss' = farMiss
    /\ ev'.ret = NoFrame
FarMissStep ==
    /\ farMiss' = farMiss + 1
    /\ hits' = hits
    /\ nearMiss' = nearMiss
    /\ ev'.ret = NoFrame

\* C1 (capacity bound): after every completed operation of the cache,
\* currentSize <= maxSize and historySize <= maxHistorySize.
C1_CapacityBound ==
    /\ currentSize <= maxSize
    /\ historySize <= maxHistorySize

\* an insert whose trim both demoted a live entry and destroyed a ghost,
\* leaving both regions full
C1_Witness ==
    /\ ev.op = "insert"
    /\ ev.log.demoted # {}
    /\ ev.log.destroyed # {}
    /\ currentSize = maxSize
    /\ historySize = maxHistorySize

\* C2 (uniqueness): the list holds at most one node per key, the hash and
\* the list hold the same keys, and after insert(k, p) the one entry for k
\* is the new one, at the head of the list.
C2_Uniqueness ==
    /\ \A i, j \in 1 .. Len(list) : list[i].key = list[j].key => i = j
    /\ hash = ListKeys
    /\ ev.op = "insert" =>
          /\ Len(list) >= 1
          /\ list[1].key = ev.key
          /\ list[1].frame \in {ev.arg, NoFrame}

\* an insert of a key the cache held as a ghost behind other entries: the
\* key is now at head with the new frame
C2_Witness ==
    /\ ev.op = "insert"
    /\ ev.pre = 1
    /\ Len(list) >= 2
    /\ list[1] = [key |-> ev.key, frame |-> ev.arg]

\* C3 (ghost classification): a lookup of a key that trim demoted and has
\* not destroyed (the call before demoted it, or the cache holds it as a
\* ghost) is a near miss and returns no frame; a lookup of a key trim
\* destroyed (the call before destroyed it, or the hash does not hold it)
\* is a far miss.
C3_GhostClassification ==
    [][ev'.op = "object" =>
          LET k == ev'.key
          IN  /\ (k \in (ev.log.demoted \ ev.log.destroyed) \/ Held(k) = 1)
                    => NearMissStep
              /\ (k \in ev.log.destroyed \/ Held(k) = 0) => FarMissStep]_vars

\* a lookup has just near-missed on a ghost, which is still a ghost
C3_Witness ==
    /\ ev.op = "object"
    /\ ev.ret = NoFrame
    /\ Held(ev.key) = 1
    /\ nearMiss >= 1

\* C4 (recency promotion): insert leaves the new entry at head; a lookup
\* that finds its key (hit or near miss) leaves that entry at head; and
\* when a lookup that found k1 is followed by an insert of another key,
\* k1 is closer to head than every other key the cache still holds.
C4_RecencyPromotion ==
    [][/\ ev'.op = "insert" => (Len(list') >= 1 /\ list'[1].key = ev'.key)
       /\ (ev'.op = "object" /\ Held(ev'.key) # 0) => list'[1].key = ev'.key
       /\ (ev.op = "object" /\ Held(ev.key) # 0 /\ ev'.op = "insert"
             /\ ev'.key # ev.key) =>
             \A k2 \in hash' \ {ev.key, ev'.key} :
                 /\ ev.key \in hash'
                 /\ Find(list', ev.key) < Find(list', k2)]_vars

\* k3 was inserted right after a lookup found k1, and k3, k1 and an older
\* key are in the list in that order
C4_Witness ==
    /\ ev.op = "insert"
    /\ ev.after # NoNode
    /\ ev.after # ev.key
    /\ Len(list) >= 3
    /\ list[1].key = ev.key
    /\ list[2].key = ev.after

\* C5 (policy thresholds): recommendSize returns Clear when total = 0,
\* NoChange when 0 < total < 30, else Grow when nearMiss * 20 >= total,
\* else Shrink when nearMiss = 0 and hits = 0, else NoChange.
C5_PolicyThresholds ==
    [][ev'.op = "recommendSize" =>
          LET total == hits + nearMiss + farMiss
          IN  ev'.action =
                 IF total = 0 THEN "Clear"
                 ELSE IF total < 30 THEN "NoChange"
                 ELSE IF nearMiss * 20 >= total THEN "Grow"
                 ELSE IF nearMiss = 0 /\ hits = 0 THEN "Shrink"
                 ELSE "NoChange"]_vars

\* recommendSize answered Grow
C5_Witness ==
    /\ ev.op = "recommendSize"
    /\ ev.action = "Grow"

\* C6 (resize regime): with fixedSize false, adjustSize(needMemory = true)
\* never leaves maxSize larger than it was before the call.
C6_ResizeRegime ==
    [][(ev'.op = "adjustSize" /\ ev'.arg = 1 /\ ~fixedSize)
          => maxSize' <= maxSize]_vars

\* C7 (scheduler batching): on a miss in the initial phase for n, when
\* makeLinear and lastN < n < lastN + numThreads + 7 and n # lastN + 1 the
\* frames lastN + 1 .. n are requested and the marker is lastN; in every
\* other case only n is requested and the marker is the no-batch value;
\* either way lastN becomes n.
C7_SchedulerBatching ==
    [][(ev'.op = "initial" /\ ev'.ret = NoFrame) =>
          LET n == ev'.key
          IN  /\ IF /\ makeLinear
                    /\ lastN < n
                    /\ n < lastN + numThreads + 7
                    /\ n # lastN + 1
                 THEN /\ ev'.req = [i \in 1 .. n - lastN |-> lastN + i]
                      /\ ev'.fd = lastN
                 ELSE /\ ev'.req = <<n>>
                      /\ ev'.fd = -2
              /\ lastN' = n
              /\ acts'[ev'.act] = [pc |-> "waiting", n |-> n, fd |-> ev'.fd,
                                   req |-> ev'.req]]_vars

\* a miss that requested a run of at least two frames
C7_Witness ==
    /\ ev.op = "initial"
    /\ ev.ret = NoFrame
    /\ Len(ev.req) >= 2
    /\ ev.fd = ev.key - Len(ev.req)

\* C8 (cache hit short-circuit): when the cache holds frame n live, the
\* initial phase returns that frame, requests nothing, and leaves no frame
\* context waiting for a ready phase.
C8_HitShortCircuit ==
    [][(ev'.op = "initial" /\ Held(ev'.key) = 2) =>
          /\ ev'.ret = list[Find(list, ev'.key)].frame
          /\ ev'.ret # NoFrame
          /\ ev'.req = <<>>
          /\ acts' = acts
          /\ acts'[ev'.act].pc = "idle"
          /\ HitStep]_vars

\* an initial phase served from the cache
C8_Witness ==
    /\ ev.op = "initial"
    /\ ev.ret # NoFrame
    /\ hits >= 1

\* C9 (ready phase): with a batch marker m the ready phase for n inserts
\* the frames m + 1 .. n - 1 in ascending order and then n; with the
\* no-batch marker it inserts only n; each inserted frame is the one got
\* from the clip, frame n is returned, and n is inserted last.
C9_ReadyPhase ==
    [][ev'.op = "ready" =>
          LET n == ev'.key
              m == ev'.fd
              q == IF m # -2 THEN [i \in 1 .. n - m |-> m + i] ELSE <<n>>
          IN  /\ ev'.log.inserted = [i \in 1 .. Len(q) |-> <<q[i], Frame(q[i])>>]
              /\ ev'.ret = Frame(n)
              /\ acts[ev'.act].pc = "waiting"
              /\ acts[ev'.act].n = n
              /\ acts[ev'.act].fd = m]_vars

\* a ready phase that inserted a run of frames ending with n
C9_Witness ==
    /\ ev.op = "ready"
    /\ Len(ev.log.inserted) >= 2
    /\ ev.log.inserted[Len(ev.log.inserted)][1] = ev.key

\* cache c after the insert of event e is made once more
Again(c, e) == insert(c, e.key, e.arg)

\* the number of list nodes with key k
Entries(c, k) == Cardinality({i \in 1 .. Len(c.list) : c.list[i].key = k})

\* clear leaves no entry, zero sizes and statistics, no boundary, and the
\* capacities and fixedSize as they were; a second clear changes nothing
ClearIdempotent ==
    ev'.op = "clear" =>
       /\ cache' = NewCache(maxSize, maxHistorySize, fixedSize, 0)
       /\ clear(cache') = cache'

\* C10 as stated (idempotence): clear twice is clear once, and inserting
\* the same key and frame twice in a row leaves exactly one entry for the
\* key, which is live.
C10_Idempotence ==
    [][/\ ClearIdempotent
       /\ ev'.op = "insert" =>
             LET c == Again(cache', ev')
             IN  /\ Entries(c, ev'.key) = 1
                 /\ c.list[Find(c.list, ev'.key)].frame = ev'.arg]_vars

\* C10 as amended: clear twice is clear once, and inserting the same key
\* and frame twice in a row leaves exactly one entry for the key, which is
\* live when maxSize >= 1.
C10_IdempotenceAmended ==
    [][/\ ClearIdempotent
       /\ ev'.op = "insert" =>
             LET c == Again(cache', ev')
             IN  /\ Entries(c, ev'.key) = 1
                 /\ maxSize' >= 1 =>
                       c.list[Find(c.list, ev'.key)].frame = ev'.arg]_vars

\* an insert into a cache with room, after which the same insert made
\* again leaves the key's one entry live at head
C10_Witness ==
    /\ ev.op = "insert"
    /\ maxSize >= 1
    /\ Len(list) >= 2
    /\ Again(cache, ev).list[1] = [key |-> ev.key, frame |-> ev.arg]
    /\ Entries(Again(cache, ev), ev.key) = 1

\* C11 (fixed-size caches are never resized): with fixedSize true,
\* adjustSize(needMemory), for either needMemory, leaves the whole cache
\* state as it was: capacities, entries and their order, boundary, sizes
\* and the three statistics.
C11_FixedSizeNoOp ==
    [][(ev'.op = "adjustSize" /\ fixedSize) => cache' = cache]_vars

\* adjustSize has just run on a fixed-size cache that holds a live entry
\* and a ghost, with lookups counted
C11_Witness ==
    /\ ev.op = "adjustSize"
    /\ fixedSize
    /\ currentSize >= 1
    /\ historySize >= 1
    /\ Total >= 1

\* C12 as stated (memory-pressure floor): an adjustSize(needMemory = true)
\* that takes maxSize from 1 or more to 0 has cleared the cache: it leaves
\* no entry, no boundary, zero sizes and zero statistics.
C12_MemoryFloor ==
    [][(ev'.op = "adjustSize" /\ ev'.arg = 1 /\ maxSize >= 1 /\ maxSize' = 0)
          => clear(cache') = cache']_vars

\* C12 as amended: an adjustSize(needMemory = true) that takes maxSize from
\* 1 or more to 0 has cleared the cache unless the recommendation was
\* Shrink; a NoChange recommendation leaves maxSize at 1 or more, and
\* clears the cache when it found maxSize at 1 or less.
C12_MemoryFloorAmended ==
    [][(ev'.op = "adjustSize" /\ ev'.arg = 1) =>
          /\ (maxSize >= 1 /\ maxSize' = 0 /\ ev'.action # "Shrink")
                => clear(cache') = cache'
          /\ ev'.action = "NoChange" =>
                /\ maxSize' >= 1
                /\ maxSize <= 1 => clear(cache') = cache']_vars

\* adjustSize(needMemory = true) took the Clear branch from maxSize of 1 or
\* more and left maxSize 0 on a cleared cache
C12_Witness ==
    /\ ev.op = "adjustSize"
    /\ ev.arg = 1
    /\ ev.action = "Clear"
    /\ ev.pre >= 1
    /\ maxSize = 0
    /\ list = <<>>

\* C13 as stated (recommendSize always resets the statistics): after every
\* call of recommendSize, whatever it returns, hits = nearMiss = farMiss = 0.
C13_AlwaysResets ==
    [][ev'.op = "recommendSize" =>
          (hits' = 0 /\ nearMiss' = 0 /\ farMiss' = 0)]_vars

\* C13 as amended: after a call of recommendSize made with total = 0 or
\* total >= 30 the three statistics are 0; a call made with 0 < total < 30
\* returns NoChange and leaves the three statistics as they were.
C13_ResetsAmended ==
    [][ev'.op = "recommendSize" =>
          IF Total = 0 \/ Total >= 30
          THEN hits' = 0 /\ nearMiss' = 0 /\ farMiss' = 0
          ELSE /\ ev'.action = "NoChange"
               /\ hits' = hits /\ nearMiss' = nearMiss /\ farMiss' = farMiss]_vars

\* recommendSize answered NoChange and left the statistics at zero, which
\* it does only for a total of 30 or more
C13_Witness ==
    /\ ev.op = "recommendSize"
    /\ ev.action = "NoChange"
    /\ Total = 0

\* C15 (normal-regime resize table): with fixedSize false and needMemory
\* false, Clear empties the cache and sets maxSize to max(maxSize - 2, 0),
\* Grow sets maxSize + 2, Shrink sets max(maxSize - 1, 0), NoChange leaves
\* maxSize and the entries as they were; maxSize stays >= 0.
C15_NormalResize ==
    [][(ev'.op = "adjustSize" /\ ev'.arg = 0 /\ ~fixedSize) =>
          /\ ev'.action \in {"Clear", "Grow", "Shrink", "NoChange"}
          /\ ev'.action = "Clear" =>
                /\ clear(cache') = cache'
                /\ maxSize' = Max(maxSize - 2, 0)
          /\ ev'.action = "Grow" => maxSize' = maxSize + 2
          /\ ev'.action = "Shrink" => maxSize' = Max(maxSize - 1, 0)
          /\ ev'.action = "NoChange" =>
                /\ maxSize' = maxSize
                /\ list' = list
                /\ hash' = hash
                /\ weakpoint' = weakpoint
                /\ currentSize' = currentSize
                /\ historySize' = historySize
          /\ (maxSize >= 0 => maxSize' >= 0)]_vars

\* adjustSize(needMemory = false) has shrunk maxSize from 2 or more by
\* one, on a cache that holds entries
C15_Witness ==
    /\ ev.op = "adjustSize"
    /\ ev.arg = 0
    /\ ev.action = "Shrink"
    /\ ev.pre >= 2
    /\ maxSize = ev.pre - 1
    /\ Len(list) >= 2

\* C16 (request/fetch matching under interleaving): the frames a ready
\* phase gets from the clip and inserts are exactly the frames its frame
\* context requested in its initial phase, each of them available, whatever
\* lastN has become in between.
C16_RequestFetchMatch ==
    [][ev'.op = "ready" =>
          LET req == acts[ev'.act].req
              ins == ev'.log.inserted
          IN  /\ {ins[i][1] : i \in 1 .. Len(ins)} =
                    {req[i] : i \in 1 .. Len(req)}
              /\ \A i \in 1 .. Len(ins) : ins[i][2] # NoFrame]_vars

\* a ready phase of a batch of frames that ran after the initial phase of
\* another frame context had moved lastN
C16_Witness ==
    /\ ev.op = "ready"
    /\ Len(ev.req) >= 2
    /\ Len(ev.log.inserted) = Len(ev.req)
    /\ lastN # ev.key

\* C17 (a freshly inserted frame is retrievable): with maxSize >= 1, right
\* after insert(k, p) the entry for k is at head with frame p, trim has
\* neither demoted nor destroyed k, and a lookup of k made next is a hit
\* that returns p.
C17_FreshRetrievable ==
    [][(ev'.op = "insert" /\ maxSize' >= 1) =>
          LET k == ev'.key
              r == object(cache', k)
          IN  /\ Len(list') >= 1
              /\ list'[1] = [key |-> k, frame |-> ev'.arg]
              /\ k \notin (ev'.log.demoted \cup ev'.log.destroyed)
              /\ r.ret = ev'.arg
              /\ r.c.hits = hits' + 1
              /\ r.c.nearMiss = nearMiss'
              /\ r.c.farMiss = farMiss']_vars

\* an insert into a full cache: trim demoted an older entry and the new
\* one is live at head
C17_Witness ==
    /\ ev.op = "insert"
    /\ maxSize >= 1
    /\ ev.log.demoted # {}
    /\ list[1] = [key |-> ev.key, frame |-> ev.arg]
    /\ object(cache, ev.key).ret = ev.arg

\* C19 (a cache hit does not move the scheduler's position): lastN starts
\* at -1; an initial phase served from the cache leaves lastN as it was, an
\* initial phase that misses sets lastN to its n, and a ready phase leaves
\* lastN as it was: lastN is -1 or the n of the latest miss.
C19_HitKeepsLastN ==
    /\ lastN = -1
    /\ [][/\ (ev'.op = "initial" /\ Held(ev'.key) = 2) =>
                 (lastN' = lastN /\ ev'.ret # NoFrame)
          /\ (ev'.op = "initial" /\ Held(ev'.key) # 2) =>
                 (lastN' = ev'.key /\ ev'.ret = NoFrame)
          /\ ev'.op = "ready" => lastN' = lastN]_vars

\* an initial phase was served from the cache while lastN is the n of an
\* earlier miss for another frame
C19_Witness ==
    /\ ev.op = "initial"
    /\ ev.ret # NoFrame
    /\ lastN # -1
    /\ lastN # ev.key

\* the action recommendSize would return if lines 50-59 tested shrink
\* before grow
ShrinkFirst(c) ==
    LET total == c.hits + c.nearMiss + c.farMiss
    IN  IF total = 0 THEN "Clear"
        ELSE IF total < minTotal THEN "NoChange"
        ELSE IF shrink(c) THEN "Shrink"
        ELSE IF grow(c) THEN "Grow"
        ELSE "NoChange"

\* C20 (grow and shrink are mutually exclusive): whenever recommendSize
\* runs with total >= 30, grow and shrink are not both true, and the action
\* it returns is the one it would return with shrink tested before grow.
C20_GrowShrinkExclusive ==
    [][(ev'.op = "recommendSize" /\ Total >= 30) =>
          /\ ~(grow(cache) /\ shrink(cache))
          /\ ev'.action = ShrinkFirst(cache)]_vars

\* recommendSize answered Shrink, which it does only for a total of 30 or
\* more made of far misses
C20_Witness ==
    /\ ev.op = "recommendSize"
    /\ ev.action = "Shrink"

\* C14 (live/ghost region split): from head to tail every entry with a
\* frame comes before every entry without one, and when there is a boundary
\* the entries on its head side have a frame and the entries from the
\* boundary to the tail have none.
C14_RegionSplit ==
    /\ \A i, j \in 1 .. Len(list) :
          (i < j /\ list[j].frame # NoFrame) => list[i].frame # NoFrame
    /\ weakpoint # NoNode =>
          /\ weakpoint \in hash
          /\ \A i \in 1 .. Len(list) :
                (list[i].frame = NoFrame) <=> (i >= Find(list, weakpoint))

\* C18 (counters agree with contents): currentSize is the number of list
\* entries that hold a frame and historySize the number that hold none.
C18_CountersAgree ==
    /\ currentSize =
          Cardinality({i \in 1 .. Len(list) : list[i].frame # NoFrame})
    /\ historySize =
          Cardinality({i \in 1 .. Len(list) : list[i].frame = NoFrame})

=============================================================================
